---------------------------- MODULE Spec2Model ----------------------------
(***************************************************************************)
(* Model of medical_mcp.py: a bearer-token gate in front of six tools,     *)
(* each a fetch-and-format wrapper over an upstream HTTP source.           *)
(*                                                                         *)
(* Conventions.                                                            *)
(*  - Text whose characters matter (regular expressions, len) is a         *)
(*    sequence of one-character strings.                                   *)
(*  - A Python call either returns or raises: Return(v) / Raise(e).        *)
(*  - A tool's result is [kind |-> "string", ...] when the tool function   *)
(*    returns a str and [kind |-> "exception", ...] when an exception      *)
(*    leaves the tool function.                                            *)
(*  - An upstream response is drawn nondeterministically: the data source  *)
(*    is outside the program and need not honour what it was sent.         *)
(*  - The module is run as a script (python medical_mcp.py), its only     *)
(*    entry point: `import re` at line 477 has then run before any tool.   *)
(*    Imported instead, every use of re raises NameError, which the tool   *)
(*    boundary turns into its error string.                                *)
(***************************************************************************)
EXTENDS Integers, Sequences, FiniteSets, TLC

VARIABLES
    pc,          \* position of the invocation: idle, authed, rejected, esearch_done, done
    configured,  \* TOKEN, the token the server was started with
    presented,   \* the token of the current call
    grant,       \* what load_access_token returned: <<>> (None) or <<AccessToken>>
    call,        \* the tool invoked and its arguments
    requests,    \* the HTTP requests issued by the current invocation, in order
    response,    \* the upstream response the invocation last received
    idlist,      \* search_pubmed_articles: id_list after phase 1
    results,     \* what the extractor returned to the tool
    candidates,  \* search_google_scholar: the elements the loop iterates over
    output,      \* what the tool function produced
    texts,       \* year / journal derivation: the texts it reads
    derived      \* year / journal derivation: what it computed

vars == <<pc, configured, presented, grant, call, requests, response, idlist,
          results, candidates, output, texts, derived>>

----------------------------------------------------------------------------
(* Bounds of the model.                                                    *)

MaxRecords == 3     \* records in one upstream JSON response
MaxLimit == 2       \* largest limit / max_results argument tried
MaxIds == 2         \* identifiers in one esearch response
MaxArticles == 2    \* article elements in one efetch response
MaxBlocks == 2      \* elements in one scholar page
MaxYearLen == 5     \* characters of the author text in the year derivation
MaxJournalLen == 5  \* characters of the author text in the journal derivation

----------------------------------------------------------------------------
(* Python values.                                                          *)

Return(v) == [raised |-> FALSE, exc |-> "", value |-> v]
Raise(e) == [raised |-> TRUE, exc |-> e, value |-> <<>>]

\* dict.get(key, default) on a field that may be absent from the record.
Absent == "<absent>"
Get(v, default) == IF v = Absent THEN default ELSE v

\* seq[:n]
Slice(seq, n) == SubSeq(seq, 1, IF n < Len(seq) THEN n ELSE Len(seq))

SeqsUpTo(S, n) == UNION {[1..k -> S] : k \in 0..n}

StringResult(tag, found, entries) ==
    [kind |-> "string", text |-> tag, found |-> found, entries |-> entries]
Message(tag) == StringResult(tag, 0, <<>>)
Escaped(e) == [kind |-> "exception", text |-> e, found |-> 0, entries |-> <<>>]

\* No handler around the tool body: whatever it raises leaves the tool.
NoHandler(r, errorText) ==
    IF r.raised THEN Escaped(r.exc) ELSE r.value

\* try: ... except Exception as e: return f"<errorText>: {str(e)}"
ExceptHandler(r, errorText) ==
    IF r.raised THEN Message(errorText) ELSE r.value

----------------------------------------------------------------------------
(* Auth gate.                                                              *)

Tokens == {"secret", "Secret", "secret ", "other", ""}
ConfiguredTokens == {"secret"}

AccessToken(token) ==
    [token |-> token, client_id |-> "puch-client", scopes |-> <<"*">>,
     expires_at |-> "None"]

\* A gate that grants access to any non-empty token.
load_access_token_any(self_token, token) ==
    IF token # "" THEN <<AccessToken(token)>> ELSE <<>>

\* SimpleBearerAuthProvider.load_access_token
load_access_token(self_token, token) ==
    IF token = self_token THEN <<AccessToken(token)>> ELSE <<>>

\* The transport's contract: a call whose token loaded no grant is rejected
\* before any tool runs.
Admitted(g) == g # <<>>

NoCall == [tool |-> "none", query |-> "", limit |-> 0]
NoResponse == [kind |-> "none"]
NoOutput == [kind |-> "none", text |-> "", found |-> 0, entries |-> <<>>]
NoTexts == [authors |-> <<>>, title |-> <<>>, abstract |-> <<>>]

\* mcp = FastMCP(auth=SimpleBearerAuthProvider(TOKEN)): every incoming call
\* has its token loaded before it is dispatched.
Authenticate ==
    /\ pc = "idle"
    /\ \E t \in Tokens :
         /\ presented' = t
         /\ grant' = load_access_token(configured, t)
         /\ pc' = IF Admitted(load_access_token(configured, t))
                  THEN "authed" ELSE "rejected"
    /\ UNCHANGED <<configured, call, requests, response, idlist, results,
                   candidates, output, texts, derived>>

\* The end of the request/response cycle: nothing persists across calls.
Finish ==
    /\ pc \in {"done", "rejected"}
    /\ pc' = "idle"
    /\ presented' = ""
    /\ grant' = <<>>
    /\ call' = NoCall
    /\ requests' = <<>>
    /\ response' = NoResponse
    /\ idlist' = <<>>
    /\ results' = <<>>
    /\ candidates' = <<>>
    /\ output' = NoOutput
    /\ UNCHANGED <<configured, texts, derived>>

\* A tool that runs to completion in one step.
Complete(tool, query, limit, reqs, resp, res, out) ==
    /\ pc = "authed"
    /\ pc' = "done"
    /\ call' = [tool |-> tool, query |-> query, limit |-> limit]
    /\ requests' = reqs
    /\ response' = resp
    /\ results' = res
    /\ output' = out
    /\ UNCHANGED <<configured, presented, grant, idlist, candidates, texts, derived>>

Limits == 1..MaxLimit

----------------------------------------------------------------------------
(* validate                                                                *)

validate ==
    Complete("validate", "", 0, <<>>, NoResponse, <<>>, Message("MY_NUMBER"))

----------------------------------------------------------------------------
(* Upstream JSON bodies.  kind says how far the body is from the expected  *)
(* shape; records is the list under the expected key when there is one.    *)
(*   network_error  client.get raises (connect error, timeout)             *)
(*   not_json       res.json() raises                                      *)
(*   not_object     the body is a JSON array: .get raises AttributeError   *)
(*   no_key         an object without the key (an error body of a non-2xx  *)
(*                  answer): .get returns its default                      *)
(*   wrong_type     the key holds a number instead of a list               *)
(*   ok             the key holds a list of records                        *)

BadKinds == {"network_error", "not_json", "not_object", "no_key", "wrong_type"}

JsonResponses(Records, n) ==
    {[kind |-> k, records |-> <<>>] : k \in BadKinds}
    \cup {[kind |-> "ok", records |-> r] : r \in SeqsUpTo(Records, n)}

\* res = await client.get(...); return res.json().get(key, [])
\* A number is returned as it is; every later use of it as a list raises.
JsonGet(resp) ==
    CASE resp.kind = "network_error" -> Raise("ConnectError")
      [] resp.kind = "not_json" -> Raise("JSONDecodeError")
      [] resp.kind = "not_object" -> Raise("AttributeError")
      [] resp.kind = "no_key" -> Return(<<>>)
      [] resp.kind = "wrong_type" -> Raise("TypeError")
      [] OTHER -> Return(resp.records)

----------------------------------------------------------------------------
(* search_drugs_tool, get_drug_details_tool                                *)

\* A label record of the response.  openfda and effective_time are read
\* with drug[...]; the names under openfda and purpose with .get.  rest
\* stands for manufacturer_name, route, dosage_form and purpose together.
DrugRecords ==
    [openfda : {TRUE}, brand : {Absent, "A", "B"}, generic : {Absent, "g"},
     rest : {Absent}, effective_time : {"t"}]
    \cup [openfda : {TRUE}, brand : {Absent, "A"}, generic : {"g"},
          rest : {"r"}, effective_time : {"t"}]
    \cup {[openfda |-> FALSE, brand |-> Absent, generic |-> Absent,
           rest |-> Absent, effective_time |-> "t"],
          [openfda |-> TRUE, brand |-> "A", generic |-> "g",
           rest |-> "r", effective_time |-> Absent]}

\* search_drugs: the limit is sent to the source and not applied to the answer.
search_drugs(resp, limit) == JsonGet(resp)

\* An entry whose generic name falls back to the brand's default.
DrugEntryDefaultsSwapped(drug) ==
    [brand |-> Get(drug.brand, "Unknown Brand"),
     generic |-> Get(drug.generic, "Unknown Brand"),
     manufacturer |-> Get(drug.rest, "Not specified"),
     route |-> Get(drug.rest, "Not specified"),
     dosage_form |-> Get(drug.rest, "Not specified"),
     purpose |-> drug.rest,
     updated |-> drug.effective_time]

\* One entry of the result list (lines 265-274).
DrugEntry(drug) ==
    [brand |-> Get(drug.brand, "Unknown Brand"),
     generic |-> Get(drug.generic, "Not specified"),
     manufacturer |-> Get(drug.rest, "Not specified"),
     route |-> Get(drug.rest, "Not specified"),
     dosage_form |-> Get(drug.rest, "Not specified"),
     purpose |-> drug.rest,
     updated |-> drug.effective_time]

\* drug['openfda'] and drug['effective_time'] raise KeyError when absent.
DrugReadable(drug) == drug.openfda /\ drug.effective_time # Absent

\* The body of search_drugs_tool inside its try.
search_drugs_body(resp, limit) ==
    LET drugs == search_drugs(resp, limit) IN
    IF drugs.raised THEN drugs
    ELSE IF drugs.value = <<>> THEN Return(Message("No drugs found"))
    ELSE IF \E i \in 1..Len(drugs.value) : ~DrugReadable(drugs.value[i])
         THEN Raise("KeyError")
    ELSE Return(StringResult("Drug Search Results", Len(drugs.value),
                             [i \in 1..Len(drugs.value) |-> DrugEntry(drugs.value[i])]))

search_drugs_tool ==
    /\ pc = "authed"
    /\ \E resp \in JsonResponses(DrugRecords, MaxRecords), limit \in Limits :
        Complete("search_drugs_tool", "q", limit, <<"fda_label">>, resp,
                 IF search_drugs(resp, limit).raised THEN <<>>
                 ELSE search_drugs(resp, limit).value,
                 ExceptHandler(search_drugs_body(resp, limit), "Error searching drugs"))

\* get_drug_by_ndc: results[0] if results else None
get_drug_by_ndc(resp) ==
    IF JsonGet(resp).raised THEN JsonGet(resp)
    ELSE IF JsonGet(resp).value = <<>> THEN Return(<<>>)
    ELSE Return(<<JsonGet(resp).value[1]>>)

\* The detail block of get_drug_details_tool (lines 297-322).
DrugDetails(drug) ==
    [brand |-> Get(drug.brand, "Not specified"),
     generic |-> Get(drug.generic, "Not specified"),
     manufacturer |-> Get(drug.rest, "Not specified"),
     route |-> Get(drug.rest, "Not specified"),
     dosage_form |-> Get(drug.rest, "Not specified"),
     purpose |-> drug.rest,
     warnings |-> drug.rest,
     drug_interactions |-> drug.rest,
     updated |-> drug.effective_time]

get_drug_details_body(resp) ==
    LET drug == get_drug_by_ndc(resp) IN
    IF drug.raised THEN drug
    ELSE IF drug.value = <<>> THEN Return(Message("No drug found with NDC"))
    ELSE IF ~DrugReadable(drug.value[1]) THEN Raise("KeyError")
    ELSE Return(StringResult("Drug Details for NDC", 1, <<DrugDetails(drug.value[1])>>))

get_drug_details_tool ==
    /\ pc = "authed"
    /\ \E resp \in JsonResponses(DrugRecords, MaxRecords) :
        Complete("get_drug_details_tool", "ndc", 1, <<"fda_label">>, resp,
                 IF get_drug_by_ndc(resp).raised THEN <<>>
                 ELSE get_drug_by_ndc(resp).value,
                 ExceptHandler(get_drug_details_body(resp), "Error fetching drug details"))

----------------------------------------------------------------------------
(* get_health_statistics_tool                                              *)

\* A data point of the response.  complete says whether SpatialDim, TimeDim,
\* Value, Comments, NumericValue and Date are all there (each is read with
\* ind[...]); Low and High are read with .get.
IndicatorRecords ==
    [SpatialDim : {"A", "B"}, complete : {TRUE}, Low : {Absent, "lo"},
     High : {"hi"}]
    \cup {[SpatialDim |-> "A", complete |-> TRUE, Low |-> "lo", High |-> Absent]}
    \cup {[SpatialDim |-> "A", complete |-> FALSE, Low |-> Absent, High |-> Absent]}

Countries == {"", "USA"}

get_health_indicators(resp, country) == JsonGet(resp)

IndicatorEntry(ind) ==
    [SpatialDim |-> ind.SpatialDim,
     range |-> IF ind.Low # Absent /\ ind.High # Absent
               THEN <<ind.Low, ind.High>> ELSE <<>>]

\* for index, ind in enumerate(indicators[:limit], start=1)
IndicatorsShown(indicators, limit) == Slice(indicators, limit)

get_health_statistics_body(resp, country, limit) ==
    LET indicators == get_health_indicators(resp, country) IN
    IF indicators.raised THEN indicators
    ELSE IF indicators.value = <<>> THEN Return(Message("No health indicators found"))
    ELSE LET shown == IndicatorsShown(indicators.value, limit) IN
         IF \E i \in 1..Len(shown) : ~shown[i].complete THEN Raise("KeyError")
         ELSE Return(StringResult("Health Statistics", Len(indicators.value),
                                  [i \in 1..Len(shown) |-> IndicatorEntry(shown[i])]))

get_health_statistics_tool ==
    /\ pc = "authed"
    /\ \E resp \in JsonResponses(IndicatorRecords, MaxRecords), limit \in Limits,
       country \in Countries :
        Complete("get_health_statistics_tool", country, limit, <<"who_indicator">>, resp,
                 IF get_health_indicators(resp, country).raised THEN <<>>
                 ELSE get_health_indicators(resp, country).value,
                 ExceptHandler(get_health_statistics_body(resp, country, limit),
                               "Error fetching health statistics"))

----------------------------------------------------------------------------
(* search_drug_nomenclature_tool                                           *)

\* A concept of the response.  complete: name, rxcui, tty and language are
\* there (read with drug[...]); synonyms is the length of the synonym list,
\* 0 when the key is absent or the list is empty.
ConceptRecords ==
    [name : {"A", "B"}, complete : {TRUE}, synonyms : {0, 1, 4}]
    \cup {[name |-> "A", complete |-> FALSE, synonyms |-> 0]}

\* Beside the shapes of JsonResponses: drugGroup without conceptGroup
\* (the default [{}] is used), and an empty conceptGroup list ([0] raises).
RxNormResponses ==
    JsonResponses(ConceptRecords, MaxRecords)
    \cup {[kind |-> k, records |-> <<>>] : k \in {"no_concept_group", "empty_concept_group"}}

\* res.json().get("drugGroup", {}).get("conceptGroup", [{}])[0].get("concept", [])
search_rxnorm_drugs(resp) ==
    CASE resp.kind = "no_concept_group" -> Return(<<>>)
      [] resp.kind = "empty_concept_group" -> Raise("IndexError")
      [] OTHER -> JsonGet(resp)

\* ', '.join(drug['synonym'][:3]) and the '...' after more than three
ConceptEntry(drug) ==
    [name |-> drug.name,
     synonyms |-> IF drug.synonyms < 3 THEN drug.synonyms ELSE 3,
     more |-> drug.synonyms > 3]

search_drug_nomenclature_body(resp) ==
    LET drugs == search_rxnorm_drugs(resp) IN
    IF drugs.raised THEN drugs
    ELSE IF drugs.value = <<>> THEN Return(Message("No drugs found in RxNorm database"))
    ELSE IF \E i \in 1..Len(drugs.value) : ~drugs.value[i].complete
         THEN Raise("KeyError")
    ELSE Return(StringResult("RxNorm Drug Search", Len(drugs.value),
                             [i \in 1..Len(drugs.value) |-> ConceptEntry(drugs.value[i])]))

search_drug_nomenclature_tool ==
    /\ pc = "authed"
    /\ \E resp \in RxNormResponses :
        Complete("search_drug_nomenclature_tool", "q", 0, <<"rxnav_drugs">>, resp,
                 IF search_rxnorm_drugs(resp).raised THEN <<>>
                 ELSE search_rxnorm_drugs(resp).value,
                 ExceptHandler(search_drug_nomenclature_body(resp), "Error searching RxNorm"))

----------------------------------------------------------------------------
(* search_medical_literature_tool / search_pubmed_articles                 *)
(* The invocation suspends at its two requests, so it is two steps: phase  *)
(* 1 (esearch) and, when it gets that far, phase 2 (efetch).               *)

Ids == {"1", "2"}
RefIds == {"9"}

\* An article element of the efetch body: its own PMID element, its
\* ArticleTitle element (plain text, empty, or holding nested markup) and
\* the PMID elements of its reference list, which follow in the document.
ArticleElements ==
    [pmid : Ids, title : {"plain", "empty", "nested"}, refs : {<<>>}]
    \cup [pmid : {"1"}, title : {"plain", "empty"}, refs : {<<r>> : r \in RefIds}]

EsearchResponses == JsonResponses(Ids, MaxIds)
EfetchResponses ==
    {[kind |-> "network_error", articles |-> <<>>]}
    \cup {[kind |-> "ok", articles |-> a] : a \in SeqsUpTo(ArticleElements, MaxArticles)}

\* The text of the title of the article with this PMID.
TitleOf(pmid) == <<"title of", pmid>>

\* re.findall(r'<PMID[^>]*>(\d+)<\/PMID>', xml_text): every PMID element,
\* in document order.
RECURSIVE pmid_findall(_)
pmid_findall(articles) ==
    IF articles = <<>> THEN <<>>
    ELSE <<articles[1].pmid>> \o articles[1].refs \o pmid_findall(Tail(articles))

\* re.findall(r'<ArticleTitle[^>]*>([^<]+)<\/ArticleTitle>', xml_text):
\* the titles made of one or more characters none of which is "<".
RECURSIVE title_findall(_)
title_findall(articles) ==
    IF articles = <<>> THEN <<>>
    ELSE (IF articles[1].title = "plain" THEN <<TitleOf(articles[1].pmid)>> ELSE <<>>)
         \o title_findall(Tail(articles))

\* for pmid, title in zip(pmid_matches, title_matches): articles.append(...)
Zip(pmids, titles) ==
    [i \in 1..(IF Len(pmids) < Len(titles) THEN Len(pmids) ELSE Len(titles)) |->
        [pmid |-> pmids[i], title |-> titles[i]]]

\* A phase 1 that never returns early.
ShortCircuitNever(id_list) == FALSE

\* if not id_list: return []
ShortCircuit(id_list) == id_list = <<>>

\* Lines 385-392: one entry per article.
LiteratureOutput(articles) ==
    IF articles = <<>> THEN Message("No medical articles found")
    ELSE StringResult("Medical Literature Search", Len(articles), articles)

\* Phase 1: the esearch request and what follows up to the efetch request.
\* A body of the wrong shape raises before any second request: .get on a
\* non-object, or ",".join on what is no list of strings.
esearch ==
    /\ pc = "authed"
    /\ \E resp \in EsearchResponses, max_results \in Limits :
        LET id_list == JsonGet(resp) IN
        /\ call' = [tool |-> "search_medical_literature_tool", query |-> "q",
                    limit |-> max_results]
        /\ requests' = <<"esearch">>
        /\ response' = resp
        /\ results' = <<>>
        /\ IF id_list.raised
           THEN /\ pc' = "done"
                /\ idlist' = <<>>
                /\ output' = ExceptHandler(id_list, "Error searching medical literature")
           ELSE IF ShortCircuit(id_list.value)
           THEN /\ pc' = "done"
                /\ idlist' = id_list.value
                /\ output' = ExceptHandler(Return(LiteratureOutput(<<>>)),
                                           "Error searching medical literature")
           ELSE /\ pc' = "esearch_done"
                /\ idlist' = id_list.value
                /\ output' = NoOutput
    /\ UNCHANGED <<configured, presented, grant, candidates, texts, derived>>

\* Phase 2: the efetch request for the identifiers, and the rest of the tool.
efetch ==
    /\ pc = "esearch_done"
    /\ \E resp \in EfetchResponses :
        LET articles == IF resp.kind = "network_error" THEN Raise("ConnectError")
                        ELSE Return(Zip(pmid_findall(resp.articles),
                                        title_findall(resp.articles))) IN
        /\ requests' = Append(requests, "efetch")
        /\ response' = resp
        /\ results' = articles.value
        /\ output' = ExceptHandler(
                        IF articles.raised THEN articles
                        ELSE Return(LiteratureOutput(articles.value)),
                        "Error searching medical literature")
    /\ pc' = "done"
    /\ UNCHANGED <<configured, presented, grant, call, idlist, candidates, texts, derived>>

----------------------------------------------------------------------------
(* Text and the regular expressions of search_google_scholar.              *)

Digit == {"0", "1", "2", "3", "4", "5", "6", "7", "8", "9"}

Min(S) == CHOOSE x \in S : \A y \in S : x <= y
Max(S) == CHOOSE x \in S : \A y \in S : x >= y

\* str.strip(): leading and trailing whitespace removed.
Strip(s) ==
    LET I == {i \in 1..Len(s) : s[i] # " "} IN
    IF I = {} THEN <<>> ELSE SubSeq(s, Min(I), Max(I))

\* re.search(r"(\d{4})", text): None (<<>>) or the group of the leftmost match.
year_search(text) ==
    LET I == {i \in 1..Len(text) :
                 /\ i + 3 <= Len(text)
                 /\ \A k \in i..(i + 3) : text[k] \in Digit} IN
    IF I = {} THEN <<>> ELSE <<SubSeq(text, Min(I), Min(I) + 3)>>

\* next((m.group(1) for m in [...] if m), None) over a list of searches
FirstMatch(matches) ==
    LET I == {i \in 1..Len(matches) : matches[i] # <<>>} IN
    IF I = {} THEN <<>> ELSE matches[Min(I)]

\* Lines 180-183: the year of a candidate block.
ExtractYear(authors, title, abstract) ==
    LET year_match == FirstMatch(<<year_search(authors), year_search(title),
                                   year_search(abstract)>>) IN
    IF year_match # <<>> THEN year_match[1] ELSE <<>>

\* re.search(sep + r" ([^sep]+)$", text) for sep "-" and ",": the leftmost
\* sep followed by a blank and then, up to the end, one character or more
\* none of which is sep.
tail_search(text, sep) ==
    LET I == {i \in 1..Len(text) :
                 /\ text[i] = sep
                 /\ i + 2 <= Len(text)
                 /\ text[i + 1] = " "
                 /\ \A k \in (i + 2)..Len(text) : text[k] # sep} IN
    IF I = {} THEN <<>> ELSE <<SubSeq(text, Min(I) + 2, Len(text))>>

\* re.search(r"in ([^,]+)", text): the leftmost "in " followed by a
\* character that is no comma; the group runs to the next comma or the end.
in_search(text) ==
    LET I == {i \in 1..Len(text) :
                 /\ i + 3 <= Len(text)
                 /\ text[i] = "i" /\ text[i + 1] = "n" /\ text[i + 2] = " "
                 /\ text[i + 3] # ","} IN
    IF I = {} THEN <<>>
    ELSE LET b == Min(I) + 3
             C == {k \in b..Len(text) : text[k] = ","}
             e == IF C = {} THEN Len(text) ELSE Min(C) - 1
         IN <<SubSeq(text, b, e)>>

\* Lines 185-188: the journal of a candidate block.
ExtractJournal(authors) ==
    LET journal_match == FirstMatch(<<tail_search(authors, "-"),
                                      tail_search(authors, ","),
                                      in_search(authors)>>) IN
    IF journal_match # <<>> THEN Strip(journal_match[1]) ELSE <<>>

----------------------------------------------------------------------------
(* search_google_scholar_tool / search_google_scholar                      *)
(* The page is the sequence, in document order, of the elements that could *)
(* be result blocks; each holds its own descendants in document order.  A  *)
(* body that is no HTML parses to a page without such elements.            *)

\* Python's None and str, for the fields of a record.
PyNone == [type |-> "NoneType", s |-> <<>>]
PyStr(s) == [type |-> "str", s |-> s]
Truthy(v) == v.type = "str" /\ v.s # <<>>

\* A descendant of a block: its tag, its classes, whether it carries
\* data-clk, its href attribute (<<>> when it has none), the tag and classes
\* of its parent inside the block, and its text.
Node(tag, classes, clk, href, ptag, pclasses, text) ==
    [tag |-> tag, classes |-> classes, clk |-> clk, href |-> href,
     ptag |-> ptag, pclasses |-> pclasses, text |-> text]

\* The classes of the model whose name contains a word: [class*="word"].
ClassesContaining(word) ==
    CASE word = "author" -> {"gs_authors", "author-line"}
      [] word = "venue" -> {"gs_venue"}
      [] word = "snippet" -> {"gs_snippet"}
      [] word = "abstract" -> {"abstract-text"}
      [] word = "citation" -> {"citation-count"}
      [] OTHER -> {}

\* The class a class selector names.
ClassOf(selector) ==
    CASE selector = ".gs_rt" -> "gs_rt"
      [] selector = ".gs_a" -> "gs_a"
      [] selector = ".gs_authors" -> "gs_authors"
      [] selector = ".gs_venue" -> "gs_venue"
      [] selector = ".gs_rs" -> "gs_rs"
      [] selector = ".gs_rs_a" -> "gs_rs_a"
      [] selector = ".gs_snippet" -> "gs_snippet"
      [] selector = ".gs_fl" -> "gs_fl"
      [] OTHER -> "<no class>"

\* One simple selector of the lists used on lines 167-177.
Matches(node, selector) ==
    CASE selector = ".gs_rt a" -> node.tag = "a" /\ "gs_rt" \in node.pclasses
      [] selector = "h3 a" -> node.tag = "a" /\ node.ptag = "h3"
      [] selector = "h3" -> node.tag = "h3"
      [] selector = "a[data-clk]" -> node.tag = "a" /\ node.clk
      [] selector = ".gs_fl a" -> node.tag = "a" /\ "gs_fl" \in node.pclasses
      [] selector = "a[href*=cites]" -> node.tag = "a" /\ node.href = <<"cites">>
      [] selector = "[class*=author]" -> node.classes \cap ClassesContaining("author") # {}
      [] selector = "[class*=venue]" -> node.classes \cap ClassesContaining("venue") # {}
      [] selector = "[class*=snippet]" -> node.classes \cap ClassesContaining("snippet") # {}
      [] selector = "[class*=abstract]" -> node.classes \cap ClassesContaining("abstract") # {}
      [] selector = "[class*=citation]" -> node.classes \cap ClassesContaining("citation") # {}
      [] OTHER -> ClassOf(selector) \in node.classes

\* element.select_one("s1, s2, ..."): the first descendant, in document
\* order, that matches any selector of the list; <<>> for None.
select_one(nodes, selectors) ==
    LET I == {i \in 1..Len(nodes) : \E sel \in selectors : Matches(nodes[i], sel)} IN
    IF I = {} THEN <<>> ELSE <<nodes[Min(I)]>>

\* a or b or c on the results of select_one
OrElse(a, b) == IF a # <<>> THEN a ELSE b

get_text(element) == IF element # <<>> THEN PyStr(Strip(element[1].text)) ELSE PyStr(<<>>)

\* title_element.get('href') if title_element else "": None when the
\* matched element has no href attribute.
title_href(element) ==
    IF element # <<>>
    THEN (IF element[1].href # <<>> THEN PyStr(element[1].href) ELSE PyNone)
    ELSE PyStr(<<>>)

\* A filter that keeps every candidate with a title.
keep_titled(title) == Truthy(title)

\* if title and len(title) > 5
keep(title) == Truthy(title) /\ Len(title.s) > 5

\* The three-step lookup of one field: a selector list, else a second
\* selector, else a third.
Lookup(nodes, first, second, third) ==
    OrElse(select_one(nodes, first),
    OrElse(select_one(nodes, second), select_one(nodes, third)))

\* Lines 167-168: the title element of a candidate and its text.
TitleElement(block) ==
    Lookup(block.nodes, {".gs_rt a", ".gs_rt", "h3 a", "h3"}, {"a[data-clk]"}, {"h3"})

ExtractedTitle(block) == get_text(TitleElement(block))

\* The body of the loop (lines 167-199) for one candidate: <<>> or <<record>>.
\* origin is no field of the record: it is the candidate's place in the
\* page, kept so that the order of the records can be stated.
ScholarRecord(block) ==
    LET title_element == TitleElement(block)
        title == ExtractedTitle(block)
        url == title_href(title_element)
        authors == get_text(Lookup(block.nodes, {".gs_a", ".gs_authors", ".gs_venue"},
                                   {"[class*=author]"}, {"[class*=venue]"}))
        abstract == get_text(Lookup(block.nodes, {".gs_rs", ".gs_rs_a", ".gs_snippet"},
                                    {"[class*=snippet]"}, {"[class*=abstract]"}))
        citations == get_text(Lookup(block.nodes, {".gs_fl a", ".gs_fl"},
                                     {"[class*=citation]"}, {"a[href*=cites]"}))
    IN IF keep(title)
       THEN <<[title |-> title, authors |-> authors, abstract |-> abstract,
               journal |-> PyStr(ExtractJournal(authors.s)),
               year |-> PyStr(ExtractYear(authors.s, title.s, abstract.s)),
               citations |-> citations, url |-> url, origin |-> block.id]>>
       ELSE <<>>

CandidateSelectors == {".gs_r", ".gs_ri", "[data-rp]"}

\* soup.select(".gs_r, .gs_ri, [data-rp]"): every element matching any of
\* the three, in document order.
select(page) == SelectSeq(page, LAMBDA b : b.sel \cap CandidateSelectors # {})

RECURSIVE ScholarRecords(_)
ScholarRecords(blocks) ==
    IF blocks = <<>> THEN <<>>
    ELSE ScholarRecord(blocks[1]) \o ScholarRecords(Tail(blocks))

\* The text samples of a block.
LongTitle == <<"R", "e", "v", "i", "e", "w">>
ShortTitle == <<"N", "o", "t", "e", "s">>
AuthorLine == <<"S", ",", " ", "2", "0", "2", "0", " ", "-", " ", "N">>
VenueLine == <<"S", " ", "-", " ", "N">>
Snippet == <<"P", " ", "2", "0", "1", "9">>
CitedBy == <<"C", " ", "5">>

\* The title markup of a block: none; a heading without a link; a heading
\* around a link; a link outside any heading.
TitleMarkups ==
    {<<>>,
     <<Node("h3", {"gs_rt"}, FALSE, <<>>, "div", {}, LongTitle)>>,
     <<Node("h3", {"gs_rt"}, FALSE, <<>>, "div", {}, LongTitle),
       Node("a", {}, FALSE, <<"u">>, "h3", {"gs_rt"}, LongTitle)>>,
     <<Node("a", {}, TRUE, <<"u">>, "div", {}, LongTitle)>>,
     <<Node("a", {}, TRUE, <<"u">>, "div", {}, ShortTitle)>>}

\* The rest of a block: nothing; an author line; an author line only the
\* second selector finds, with a snippet and a citation line.
OtherMarkups ==
    {<<>>,
     <<Node("div", {"gs_a"}, FALSE, <<>>, "div", {}, AuthorLine)>>,
     <<Node("div", {"author-line"}, FALSE, <<>>, "div", {}, VenueLine),
       Node("div", {"gs_rs"}, FALSE, <<>>, "div", {}, Snippet),
       Node("div", {"gs_fl"}, FALSE, <<>>, "div", {}, CitedBy)>>}

\* What an element matches of the candidate selectors ({}: no candidate).
SelectorSets == {{}, {".gs_r"}, {".gs_ri"}, {"[data-rp]"}}

\* Every selector set and title markup with a full block, and every title
\* and rest markup under the first selector.
Elements ==
    {[sel |-> c, nodes |-> t \o o] :
        c \in SelectorSets, t \in TitleMarkups,
        o \in {x \in OtherMarkups : Len(x) = 3}}
    \cup {[sel |-> {".gs_r"}, nodes |-> t \o o] : t \in TitleMarkups, o \in OtherMarkups}

\* A page: its elements, each with its place in the document.
Pages ==
    {[i \in 1..Len(p) |-> [id |-> i, sel |-> p[i].sel, nodes |-> p[i].nodes]] :
        p \in SeqsUpTo(Elements, MaxBlocks)}

ScholarResponses ==
    {[kind |-> "network_error", page |-> <<>>]}
    \cup {[kind |-> "ok", page |-> p] : p \in Pages}

\* search_google_scholar: the request, the parse, the loop.  The random
\* delay before the request changes no state.
search_google_scholar(resp) ==
    IF resp.kind = "network_error" THEN Raise("ConnectError")
    ELSE Return(ScholarRecords(select(resp.page)))

\* Lines 451-465: the lines of one entry are the fields that are truthy.
ScholarEntry(article) ==
    [title |-> article.title,
     lines |-> {f \in {"authors", "journal", "year", "citations", "url", "abstract"} :
                   Truthy(article[f])}]

search_google_scholar_body(resp) ==
    LET articles == search_google_scholar(resp) IN
    IF articles.raised THEN articles
    ELSE IF articles.value = <<>> THEN Return(Message("No academic articles found"))
    ELSE Return(StringResult("Google Scholar Search", Len(articles.value),
                             [i \in 1..Len(articles.value) |-> ScholarEntry(articles.value[i])]))

search_google_scholar_tool ==
    /\ pc = "authed"
    /\ \E resp \in ScholarResponses :
        /\ call' = [tool |-> "search_google_scholar_tool", query |-> "q", limit |-> 0]
        /\ requests' = <<"scholar">>
        /\ response' = resp
        /\ candidates' = IF resp.kind = "ok" THEN select(resp.page) ELSE <<>>
        /\ results' = IF search_google_scholar(resp).raised THEN <<>>
                      ELSE search_google_scholar(resp).value
        /\ output' = ExceptHandler(search_google_scholar_body(resp),
                                   "Error searching Google Scholar")
    /\ pc' = "done"
    /\ UNCHANGED <<configured, presented, grant, idlist, texts, derived>>

----------------------------------------------------------------------------
(* The two derivations on their own, over every text up to a length.       *)

TextsUpTo(Alphabet, n) == SeqsUpTo(Alphabet, n)

YearAuthorTexts == TextsUpTo({"1", "a"}, MaxYearLen)
YearTitleTexts ==
    {<<>>, <<"R">>, <<"2", "2", "2">>, <<"2", "2", "2", "2">>,
     <<"R", "2", "2", "2", "2">>, <<"2", "2", "2", "2", "2">>}
YearAbstractTexts ==
    {<<>>, <<"3", "3", "3", "3">>, <<"P", " ", "3", "3", "3", "3">>,
     <<"3", "3", "3", "3", "3", "3">>}

\* get_text(strip=True) leaves no blank at either end of the author text.
JournalAuthorTexts ==
    {t \in TextsUpTo({"-", ",", " ", "i", "n", "N"}, MaxJournalLen) : Strip(t) = t}

DeriveYear ==
    /\ pc = "year_input"
    /\ pc' = "year_done"
    /\ derived' = ExtractYear(texts.authors, texts.title, texts.abstract)
    /\ UNCHANGED <<configured, presented, grant, call, requests, response, idlist,
                   results, candidates, output, texts>>

DeriveJournal ==
    /\ pc = "journal_input"
    /\ pc' = "journal_done"
    /\ derived' = ExtractJournal(texts.authors)
    /\ UNCHANGED <<configured, presented, grant, call, requests, response, idlist,
                   results, candidates, output, texts>>

Quiet ==
    /\ configured = "secret"
    /\ presented = ""
    /\ grant = <<>>
    /\ call = NoCall
    /\ requests = <<>>
    /\ response = NoResponse
    /\ idlist = <<>>
    /\ results = <<>>
    /\ candidates = <<>>
    /\ output = NoOutput
    /\ derived = <<>>

InitYear ==
    /\ pc = "year_input"
    /\ texts \in [authors : YearAuthorTexts, title : YearTitleTexts,
                  abstract : YearAbstractTexts]
    /\ Quiet

InitJournal ==
    /\ pc = "journal_input"
    /\ texts \in [authors : JournalAuthorTexts, title : {<<>>}, abstract : {<<>>}]
    /\ Quiet

NextYear == DeriveYear
NextJournal == DeriveJournal

SpecYear == InitYear /\ [][NextYear]_vars
SpecJournal == InitJournal /\ [][NextJournal]_vars

Init ==
    /\ pc = "idle"
    /\ configured \in ConfiguredTokens
    /\ presented = ""
    /\ grant = <<>>
    /\ call = NoCall
    /\ requests = <<>>
    /\ response = NoResponse
    /\ idlist = <<>>
    /\ results = <<>>
    /\ candidates = <<>>
    /\ output = NoOutput
    /\ texts = NoTexts
    /\ derived = <<>>

Next ==
    \/ Authenticate
    \/ Finish
    \/ validate
    \/ search_drugs_tool
    \/ get_drug_details_tool
    \/ get_health_statistics_tool
    \/ search_drug_nomenclature_tool
    \/ esearch
    \/ efetch
    \/ search_google_scholar_tool

Spec == Init /\ [][Next]_vars

----------------------------------------------------------------------------
(* Properties.                                                             *)

Range(seq) == {seq[i] : i \in 1..Len(seq)}
Least(a, b) == IF a < b THEN a ELSE b

\* C1: every tool invocation ends by returning a string; no exception ever
\* leaves a tool function, whatever the upstream request or body was.
C1_ToolsReturnString ==
    /\ output.kind # "exception"
    /\ (pc = "done" => output.kind = "string")

\* A drug search whose answer held a record without a required key ended
\* with the error string.
C1_Witness ==
    /\ pc = "done"
    /\ call.tool = "search_drugs_tool"
    /\ response.kind = "ok"
    /\ \E i \in 1..Len(response.records) : ~DrugReadable(response.records[i])
    /\ output = Message("Error searching drugs")

\* C2: in a literature search, an empty phase-1 identifier list means no
\* efetch request and the "No medical articles found" message; an efetch
\* request is only ever issued after esearch gave one identifier or more.
C2_EmptyIdListShortCircuits ==
    call.tool = "search_medical_literature_tool" =>
        /\ ("efetch" \in Range(requests) =>
                /\ requests = <<"esearch", "efetch">>
                /\ Len(idlist) >= 1)
        /\ (/\ requests = <<"esearch">>
            /\ response.kind \in {"ok", "no_key"}
            /\ response.records = <<>>
            => /\ pc = "done"
               /\ output = Message("No medical articles found"))

\* A literature search ended after an esearch answer with an empty list.
C2_Witness ==
    /\ pc = "done"
    /\ call.tool = "search_medical_literature_tool"
    /\ response.kind = "ok"
    /\ response.records = <<>>
    /\ requests = <<"esearch">>
    /\ output = Message("No medical articles found")

\* C3: a tool with a result-count bound describes exactly min(bound, number
\* of source records) records, the first ones in source order, whether or
\* not the source honoured the bound it was sent.
C3_OutputBoundedByLimit ==
    (/\ pc = "done"
     /\ call.tool \in {"search_drugs_tool", "get_health_statistics_tool",
                       "search_medical_literature_tool"}
     /\ output.text \in {"Drug Search Results", "Health Statistics",
                         "Medical Literature Search"})
    => /\ Len(output.entries) = Least(call.limit, Len(results))
       /\ call.tool = "search_drugs_tool" =>
            \A i \in 1..Len(output.entries) : output.entries[i] = DrugEntry(results[i])
       /\ call.tool = "get_health_statistics_tool" =>
            \A i \in 1..Len(output.entries) : output.entries[i] = IndicatorEntry(results[i])
       /\ call.tool = "search_medical_literature_tool" =>
            \A i \in 1..Len(output.entries) : output.entries[i] = results[i]

\* The first run of exactly four digits of a text: four digits with no
\* digit before or after them.  <<>> when the text has none.
FirstFourDigitRun(text) ==
    LET I == {i \in 1..Len(text) :
                 /\ i + 3 <= Len(text)
                 /\ \A k \in i..(i + 3) : text[k] \in Digit
                 /\ (i > 1 => text[i - 1] \notin Digit)
                 /\ (i + 4 <= Len(text) => text[i + 4] \notin Digit)} IN
    IF I = {} THEN <<>> ELSE <<SubSeq(text, Min(I), Min(I) + 3)>>

\* C4: the year is the first run of exactly four digits of the first of
\* author text, title and abstract that holds such a run, and empty when
\* none of the three does.
C4_YearIsFirstFourDigitRun ==
    pc = "year_done" =>
        derived =
            (IF FirstFourDigitRun(texts.authors) # <<>>
                THEN FirstFourDigitRun(texts.authors)[1]
             ELSE IF FirstFourDigitRun(texts.title) # <<>>
                THEN FirstFourDigitRun(texts.title)[1]
             ELSE IF FirstFourDigitRun(texts.abstract) # <<>>
                THEN FirstFourDigitRun(texts.abstract)[1]
             ELSE <<>>)

\* The text after the last sep of a text, when a blank follows that sep
\* and something follows the blank.
AfterTrailing(text, sep) ==
    LET K == {i \in 1..Len(text) : text[i] = sep} IN
    IF K # {} /\ Max(K \cup {0}) + 2 <= Len(text) /\ text[Max(K \cup {0}) + 1] = " "
    THEN <<SubSeq(text, Max(K) + 2, Len(text))>> ELSE <<>>

\* The text that follows the word "in", up to the next comma.
AfterWordIn(text) ==
    LET I == {i \in 1..Len(text) :
                 /\ i + 3 <= Len(text)
                 /\ text[i] = "i" /\ text[i + 1] = "n" /\ text[i + 2] = " "
                 /\ text[i + 3] # ","
                 /\ (i > 1 => text[i - 1] \in {" ", ",", "-"})} IN
    IF I = {} THEN <<>>
    ELSE LET b == Min(I) + 3
             C == {k \in b..Len(text) : text[k] = ","}
         IN <<SubSeq(text, b, IF C = {} THEN Len(text) ELSE Min(C) - 1)>>

\* C5: the journal is the text after a trailing " - ", else the text after
\* a trailing ", ", else the text following the word "in "; it is empty
\* when none of the three is there.
C5_JournalByPatternOrder ==
    pc = "journal_done" =>
        derived =
            (IF AfterTrailing(texts.authors, "-") # <<>>
                THEN Strip(AfterTrailing(texts.authors, "-")[1])
             ELSE IF AfterTrailing(texts.authors, ",") # <<>>
                THEN Strip(AfterTrailing(texts.authors, ",")[1])
             ELSE IF AfterWordIn(texts.authors) # <<>>
                THEN Strip(AfterWordIn(texts.authors)[1])
             ELSE <<>>)

ScholarDone ==
    pc = "done" /\ call.tool = "search_google_scholar_tool" /\ response.kind = "ok"

\* C6: the records returned are exactly the candidates whose extracted
\* title is longer than 5 characters, in document order; a candidate with an
\* empty or shorter title is never among them.
C6_FilterByTitleLength ==
    ScholarDone =>
        /\ \A i \in 1..Len(results) : Len(results[i].title.s) > 5
        /\ \A i \in 1..Len(candidates) :
              (Len(ExtractedTitle(candidates[i]).s) > 5)
                 <=> (\E j \in 1..Len(results) : results[j].origin = candidates[i].id)
        /\ \A i, j \in 1..Len(results) : i < j => results[i].origin < results[j].origin

\* A candidate with a five-character title and other fields was dropped and
\* a later candidate was returned.
C6_Witness ==
    /\ ScholarDone
    /\ Len(results) = 1
    /\ \E i \in 1..Len(candidates) :
          /\ ExtractedTitle(candidates[i]).s = ShortTitle
          /\ Len(candidates[i].nodes) > 1
          /\ candidates[i].id < results[1].origin

\* C7: in a drug search, a record without generic_name is an entry of the
\* result list with generic name "Not specified"; whatever optional fields
\* the records lack, the output is the result list, one entry per record.
C7_MissingGenericNotSpecified ==
    (/\ pc = "done"
     /\ call.tool = "search_drugs_tool"
     /\ response.kind = "ok"
     /\ response.records # <<>>
     /\ \A i \in 1..Len(response.records) : DrugReadable(response.records[i]))
    => /\ output.kind = "string"
       /\ output.text = "Drug Search Results"
       /\ Len(output.entries) = Len(response.records)
       /\ \A i \in 1..Len(response.records) :
             /\ response.records[i].generic = Absent
                   => output.entries[i].generic = "Not specified"
             /\ response.records[i].brand # Absent
                   => output.entries[i].brand = response.records[i].brand

\* A record with brand_name only was rendered.
C7_Witness ==
    /\ pc = "done"
    /\ call.tool = "search_drugs_tool"
    /\ output.text = "Drug Search Results"
    /\ \E i \in 1..Len(response.records) :
          /\ response.records[i].brand = "A"
          /\ response.records[i].generic = Absent
          /\ response.records[i].rest = Absent
          /\ output.entries[i].generic = "Not specified"

\* C8: a token loads a grant (scope "*", no expiry) exactly when it equals
\* the configured token, and no tool runs for a call whose token differs.
C8_GrantIffTokenEqual ==
    /\ pc # "idle" => ((grant # <<>>) <=> (presented = configured))
    /\ grant # <<>> =>
          /\ grant[1].token = presented
          /\ grant[1].scopes = <<"*">>
          /\ grant[1].expires_at = "None"
    /\ call.tool # "none" => presented = configured

\* A token that differs from the configured one only in case was rejected.
C8_Witness ==
    /\ pc = "rejected"
    /\ presented = "Secret"
    /\ configured = "secret"
    /\ grant = <<>>

\* C9: the candidates are the matches of one selector of the list: a
\* broader selector contributes none when a more specific one matched.
C9_CandidatesBySelectorFallback ==
    ScholarDone =>
        \/ candidates = <<>>
        \/ \E sel \in CandidateSelectors :
              candidates = SelectSeq(response.page, LAMBDA b : sel \in b.sel)

\* C10: every field of every returned record is a string.
C10_FieldsAreStrings ==
    ScholarDone =>
        \A i \in 1..Len(results) :
            \A f \in {"title", "url", "authors", "abstract", "journal", "year",
                      "citations"} : results[i][f].type = "str"

\* C11: every record returned by search_pubmed_articles carries the PMID
\* of an article of the efetch response together with the title of that
\* same article, whatever the titles (plain, empty, nested markup) and the
\* reference PMID elements of the response.
C11_TitlePairedWithOwnPmid ==
    (/\ pc = "done"
     /\ call.tool = "search_medical_literature_tool"
     /\ requests = <<"esearch", "efetch">>
     /\ response.kind = "ok")
    => \A i \in 1..Len(results) :
          \E k \in 1..Len(response.articles) :
              /\ response.articles[k].pmid = results[i].pmid
              /\ response.articles[k].title = "plain"
              /\ results[i].title = TitleOf(response.articles[k].pmid)

=============================================================================
